---- MODULE Spec2Model ----
(***************************************************************************)
(* Model of src/main.py: keyword extraction by TF-IDF.                     *)
(*                                                                         *)
(* Representation.                                                         *)
(*   - A character is its Unicode code point; a str is a sequence of code  *)
(*     points; a word (token, lemma) is a str.                             *)
(*   - A Python dict / Counter is the sequence of its <<key, value>> items *)
(*     in insertion order (dicts iterate in insertion order).              *)
(*   - A float is an IEEE 754 double [m, e] of value m * 2^e: m is the     *)
(*     53-bit significand, 2^52 <= m < 2^53, as four 14-bit limbs, least   *)
(*     significant first. Only positive normal doubles occur (scores are   *)
(*     positive and far from the ends of the range). Division and          *)
(*     multiplication round to nearest, ties to even, as the hardware does.*)
(*   - round(x, 5) is the integer number of hundred-thousandths.           *)
(*   - The report string is the sequence of its newline-terminated lines.  *)
(*   - A raised exception is recorded in `raised` and stops the run.       *)
(***************************************************************************)
EXTENDS Integers, Sequences, FiniteSets, TLC

VARIABLES
    pc,                            \* the statement of main() to run next
    text,                          \* the document text read from the PDF
    articles,                      \* split_text_into_articles(text)
    words,                         \* articles_preprocessing(articles)
    normal_form,                   \* the analyzer's normal form of each word
    lemmatized_articles,           \* lemmatize_articles(articles)
    df_table,                      \* number_of_articles_with_word of the run
    tf_idfs,                       \* calculate_tf_idf(lemmatized_articles)
    limit,                         \* the limit argument of format_tf_idf
    result,                        \* format_tf_idf(tf_idfs, limit)
    raised,                        \* the exception that ended the run, or "none"
    words_arg,                     \* argument of remove_non_alphabetical_words
    filtered_words                 \* its return value

vars == <<pc, text, articles, words, normal_form, lemmatized_articles,
          df_table, tf_idfs, limit, result, raised,
          words_arg, filtered_words>>

(***************************************************************************)
(* Bounds of the model.                                                    *)
(***************************************************************************)
\* longest document, in chunks of Chunks
MaxChunks == 4
\* largest corpus handed directly to the TF-IDF engine, in articles
MaxArticles == 3
\* largest corpus handed directly to the TF-IDF engine, in lemmas
MaxLemmas == 4
\* longest single article handed directly to the TF-IDF engine, in lemmas
MaxLong == 5
\* largest limit handed directly to format_tf_idf
MaxLimit == 2
\* longest token list handed directly to the alphabetic filter
MaxTokens == 2

(***************************************************************************)
(* Generic helpers.                                                        *)
(***************************************************************************)
RECURSIVE Concat(_)
Concat(ss) == IF ss = <<>> THEN <<>> ELSE Head(ss) \o Concat(Tail(ss))

SeqsUpTo(S, n) == UNION {[1..k -> S] : k \in 0..n}

Range(s) == {s[i] : i \in 1..Len(s)}

Min(a, b) == IF a < b THEN a ELSE b

(***************************************************************************)
(* re: the two patterns of split_text_into_articles, and re.split.         *)
(* A pattern without alternation or repetition is a sequence of character  *)
(* classes; it matches at i when every class holds of its character.       *)
(***************************************************************************)
\* the code points first..last of the runs
InRuns(runs) == UNION {r[1]..r[2] : r \in runs}

\* the decimal digits of Unicode 14.0 (category Nd), as runs <<first, last>>
DigitRuns ==
    {<<48, 57>>, <<1632, 1641>>, <<1776, 1785>>, <<1984, 1993>>,
     <<2406, 2415>>, <<2534, 2543>>, <<2662, 2671>>, <<2790, 2799>>,
     <<2918, 2927>>, <<3046, 3055>>, <<3174, 3183>>, <<3302, 3311>>,
     <<3430, 3439>>, <<3558, 3567>>, <<3664, 3673>>, <<3792, 3801>>,
     <<3872, 3881>>, <<4160, 4169>>, <<4240, 4249>>, <<6112, 6121>>,
     <<6160, 6169>>, <<6470, 6479>>, <<6608, 6617>>, <<6784, 6793>>,
     <<6800, 6809>>, <<6992, 7001>>, <<7088, 7097>>, <<7232, 7241>>,
     <<7248, 7257>>, <<42528, 42537>>, <<43216, 43225>>, <<43264, 43273>>,
     <<43472, 43481>>, <<43504, 43513>>, <<43600, 43609>>, <<44016, 44025>>,
     <<65296, 65305>>, <<66720, 66729>>, <<68912, 68921>>, <<69734, 69743>>,
     <<69872, 69881>>, <<69942, 69951>>, <<70096, 70105>>, <<70384, 70393>>,
     <<70736, 70745>>, <<70864, 70873>>, <<71248, 71257>>, <<71360, 71369>>,
     <<71472, 71481>>, <<71904, 71913>>, <<72016, 72025>>, <<72784, 72793>>,
     <<73040, 73049>>, <<73120, 73129>>, <<92768, 92777>>, <<92864, 92873>>,
     <<93008, 93017>>, <<120782, 120831>>, <<123200, 123209>>,
     <<123632, 123641>>, <<125264, 125273>>, <<130032, 130041>>}

\* \d in a str pattern: any Unicode decimal digit
Digit == InRuns(DigitRuns)

\* r'УДК \d\d\d\.'
StartPattern == <<{1059}, {1044}, {1050}, {32}, Digit, Digit, Digit, {46}>>

\* r'СПИСОК ЛИТЕРАТУРЫ'
EndPattern ==
    <<{1057}, {1055}, {1048}, {1057}, {1054}, {1050}, {32}, {1051}, {1048},
      {1058}, {1045}, {1056}, {1040}, {1058}, {1059}, {1056}, {1067}>>

MatchAt(pat, s, i) ==
    /\ i >= 1
    /\ i + Len(pat) - 1 <= Len(s)
    /\ \A j \in 1..Len(pat) : s[i + j - 1] \in pat[j]

\* the leftmost match that starts at i or later, or 0 when there is none
NextMatch(pat, s, i) ==
    LET found == {j \in i..Len(s) : MatchAt(pat, s, j)}
    IN  IF found = {} THEN 0
        ELSE CHOOSE j \in found : \A k \in found : j <= k

RECURSIVE ReSplitFrom(_, _, _, _)
\* the scan resumes right after each match, so matches never overlap
ReSplitFrom(pat, s, i, acc) ==
    IF NextMatch(pat, s, i) = 0 THEN Append(acc, SubSeq(s, i, Len(s)))
    ELSE ReSplitFrom(pat, s, NextMatch(pat, s, i) + Len(pat),
                     Append(acc, SubSeq(s, i, NextMatch(pat, s, i) - 1)))

\* re.split(pat, s): the pieces between the leftmost non-overlapping matches
re_split(pat, s) == ReSplitFrom(pat, s, 1, <<>>)

(***************************************************************************)
(* split_text_into_articles                                                *)
(***************************************************************************)
\* bug variant: the preamble is kept as an article
split_text_keep_preamble(t) ==
    LET splitted_text == re_split(StartPattern, t)
    IN  [k \in 1..Len(splitted_text) |->
            re_split(EndPattern, splitted_text[k])[1]]

\* bug variant: the text after the last end marker is kept instead
split_text_last_piece(t) ==
    LET splitted_text == re_split(StartPattern, t)
    IN  [k \in 1..(Len(splitted_text) - 1) |->
            LET pieces == re_split(EndPattern, splitted_text[k + 1])
            IN  pieces[Len(pieces)]]

split_text_into_articles(t) ==
    LET splitted_text == re_split(StartPattern, t)
    IN  [k \in 1..(Len(splitted_text) - 1) |->
            re_split(EndPattern, splitted_text[k + 1])[1]]

(***************************************************************************)
(* articles_preprocessing: lower, tokenize, remove junk.                   *)
(***************************************************************************)
\* the one-character lowercase mappings of Unicode 14.0: <<first, last, step,
\* delta>> maps each of first, first + step, .. last to itself plus delta
LowerRuns ==
    {<<65, 90, 1, 32>>, <<192, 214, 1, 32>>, <<216, 222, 1, 32>>,
     <<256, 302, 2, 1>>, <<306, 310, 2, 1>>, <<313, 327, 2, 1>>,
     <<330, 374, 2, 1>>, <<376, 376, 1, -121>>, <<377, 381, 2, 1>>,
     <<385, 385, 1, 210>>, <<386, 388, 2, 1>>, <<390, 390, 1, 206>>,
     <<391, 391, 1, 1>>, <<393, 394, 1, 205>>, <<395, 395, 1, 1>>,
     <<398, 398, 1, 79>>, <<399, 399, 1, 202>>, <<400, 400, 1, 203>>,
     <<401, 401, 1, 1>>, <<403, 403, 1, 205>>, <<404, 404, 1, 207>>,
     <<406, 406, 1, 211>>, <<407, 407, 1, 209>>, <<408, 408, 1, 1>>,
     <<412, 412, 1, 211>>, <<413, 413, 1, 213>>, <<415, 415, 1, 214>>,
     <<416, 420, 2, 1>>, <<422, 422, 1, 218>>, <<423, 423, 1, 1>>,
     <<425, 425, 1, 218>>, <<428, 428, 1, 1>>, <<430, 430, 1, 218>>,
     <<431, 431, 1, 1>>, <<433, 434, 1, 217>>, <<435, 437, 2, 1>>,
     <<439, 439, 1, 219>>, <<440, 440, 1, 1>>, <<444, 444, 1, 1>>,
     <<452, 452, 1, 2>>, <<453, 453, 1, 1>>, <<455, 455, 1, 2>>,
     <<456, 456, 1, 1>>, <<458, 458, 1, 2>>, <<459, 475, 2, 1>>,
     <<478, 494, 2, 1>>, <<497, 497, 1, 2>>, <<498, 500, 2, 1>>,
     <<502, 502, 1, -97>>, <<503, 503, 1, -56>>, <<504, 542, 2, 1>>,
     <<544, 544, 1, -130>>, <<546, 562, 2, 1>>, <<570, 570, 1, 10795>>,
     <<571, 571, 1, 1>>, <<573, 573, 1, -163>>, <<574, 574, 1, 10792>>,
     <<577, 577, 1, 1>>, <<579, 579, 1, -195>>, <<580, 580, 1, 69>>,
     <<581, 581, 1, 71>>, <<582, 590, 2, 1>>, <<880, 882, 2, 1>>,
     <<886, 886, 1, 1>>, <<895, 895, 1, 116>>, <<902, 902, 1, 38>>,
     <<904, 906, 1, 37>>, <<908, 908, 1, 64>>, <<910, 911, 1, 63>>,
     <<913, 929, 1, 32>>, <<931, 939, 1, 32>>, <<975, 975, 1, 8>>,
     <<984, 1006, 2, 1>>, <<1012, 1012, 1, -60>>, <<1015, 1015, 1, 1>>,
     <<1017, 1017, 1, -7>>, <<1018, 1018, 1, 1>>, <<1021, 1023, 1, -130>>,
     <<1024, 1039, 1, 80>>, <<1040, 1071, 1, 32>>, <<1120, 1152, 2, 1>>,
     <<1162, 1214, 2, 1>>, <<1216, 1216, 1, 15>>, <<1217, 1229, 2, 1>>,
     <<1232, 1326, 2, 1>>, <<1329, 1366, 1, 48>>, <<4256, 4293, 1, 7264>>,
     <<4295, 4295, 1, 7264>>, <<4301, 4301, 1, 7264>>,
     <<5024, 5103, 1, 38864>>, <<5104, 5109, 1, 8>>, <<7312, 7354, 1, -3008>>,
     <<7357, 7359, 1, -3008>>, <<7680, 7828, 2, 1>>, <<7838, 7838, 1, -7615>>,
     <<7840, 7934, 2, 1>>, <<7944, 7951, 1, -8>>, <<7960, 7965, 1, -8>>,
     <<7976, 7983, 1, -8>>, <<7992, 7999, 1, -8>>, <<8008, 8013, 1, -8>>,
     <<8025, 8031, 2, -8>>, <<8040, 8047, 1, -8>>, <<8072, 8079, 1, -8>>,
     <<8088, 8095, 1, -8>>, <<8104, 8111, 1, -8>>, <<8120, 8121, 1, -8>>,
     <<8122, 8123, 1, -74>>, <<8124, 8124, 1, -9>>, <<8136, 8139, 1, -86>>,
     <<8140, 8140, 1, -9>>, <<8152, 8153, 1, -8>>, <<8154, 8155, 1, -100>>,
     <<8168, 8169, 1, -8>>, <<8170, 8171, 1, -112>>, <<8172, 8172, 1, -7>>,
     <<8184, 8185, 1, -128>>, <<8186, 8187, 1, -126>>, <<8188, 8188, 1, -9>>,
     <<8486, 8486, 1, -7517>>, <<8490, 8490, 1, -8383>>,
     <<8491, 8491, 1, -8262>>, <<8498, 8498, 1, 28>>, <<8544, 8559, 1, 16>>,
     <<8579, 8579, 1, 1>>, <<9398, 9423, 1, 26>>, <<11264, 11311, 1, 48>>,
     <<11360, 11360, 1, 1>>, <<11362, 11362, 1, -10743>>,
     <<11363, 11363, 1, -3814>>, <<11364, 11364, 1, -10727>>,
     <<11367, 11371, 2, 1>>, <<11373, 11373, 1, -10780>>,
     <<11374, 11374, 1, -10749>>, <<11375, 11375, 1, -10783>>,
     <<11376, 11376, 1, -10782>>, <<11378, 11378, 1, 1>>,
     <<11381, 11381, 1, 1>>, <<11390, 11391, 1, -10815>>,
     <<11392, 11490, 2, 1>>, <<11499, 11501, 2, 1>>, <<11506, 11506, 1, 1>>,
     <<42560, 42604, 2, 1>>, <<42624, 42650, 2, 1>>, <<42786, 42798, 2, 1>>,
     <<42802, 42862, 2, 1>>, <<42873, 42875, 2, 1>>,
     <<42877, 42877, 1, -35332>>, <<42878, 42886, 2, 1>>,
     <<42891, 42891, 1, 1>>, <<42893, 42893, 1, -42280>>,
     <<42896, 42898, 2, 1>>, <<42902, 42920, 2, 1>>,
     <<42922, 42922, 1, -42308>>, <<42923, 42923, 1, -42319>>,
     <<42924, 42924, 1, -42315>>, <<42925, 42925, 1, -42305>>,
     <<42926, 42926, 1, -42308>>, <<42928, 42928, 1, -42258>>,
     <<42929, 42929, 1, -42282>>, <<42930, 42930, 1, -42261>>,
     <<42931, 42931, 1, 928>>, <<42932, 42946, 2, 1>>,
     <<42948, 42948, 1, -48>>, <<42949, 42949, 1, -42307>>,
     <<42950, 42950, 1, -35384>>, <<42951, 42953, 2, 1>>,
     <<42960, 42960, 1, 1>>, <<42966, 42968, 2, 1>>, <<42997, 42997, 1, 1>>,
     <<65313, 65338, 1, 32>>, <<66560, 66599, 1, 40>>,
     <<66736, 66771, 1, 40>>, <<66928, 66938, 1, 39>>,
     <<66940, 66954, 1, 39>>, <<66956, 66962, 1, 39>>,
     <<66964, 66965, 1, 39>>, <<68736, 68786, 1, 64>>,
     <<71840, 71871, 1, 32>>, <<93760, 93791, 1, 32>>,
     <<125184, 125217, 1, 34>>}

\* the lowercase of c where it is one character, c where c has none
ToLower(c) ==
    LET of == {r \in LowerRuns :
                  c >= r[1] /\ c <= r[2] /\ (c - r[1]) % r[3] = 0}
    IN  IF of = {} THEN c ELSE c + (CHOOSE r \in of : TRUE)[4]

\* str.lower() of one character: U+0130 has the only lowercase of two
\* characters, i and the combining dot above
LowerChar(c) == IF c = 304 THEN <<105, 775>> ELSE <<ToLower(c)>>

\* the cased characters of Unicode 14.0 (Lowercase, Uppercase or category
\* Lt), as runs <<first, last>>
CasedRuns ==
    {<<65, 90>>, <<97, 122>>, <<170, 170>>, <<181, 181>>, <<186, 186>>,
     <<192, 214>>, <<216, 246>>, <<248, 442>>, <<444, 447>>, <<452, 659>>,
     <<661, 696>>, <<704, 705>>, <<736, 740>>, <<837, 837>>, <<880, 883>>,
     <<886, 887>>, <<890, 893>>, <<895, 895>>, <<902, 902>>, <<904, 906>>,
     <<908, 908>>, <<910, 929>>, <<931, 1013>>, <<1015, 1153>>,
     <<1162, 1327>>, <<1329, 1366>>, <<1376, 1416>>, <<4256, 4293>>,
     <<4295, 4295>>, <<4301, 4301>>, <<4304, 4346>>, <<4349, 4351>>,
     <<5024, 5109>>, <<5112, 5117>>, <<7296, 7304>>, <<7312, 7354>>,
     <<7357, 7359>>, <<7424, 7615>>, <<7680, 7957>>, <<7960, 7965>>,
     <<7968, 8005>>, <<8008, 8013>>, <<8016, 8023>>, <<8025, 8025>>,
     <<8027, 8027>>, <<8029, 8029>>, <<8031, 8061>>, <<8064, 8116>>,
     <<8118, 8124>>, <<8126, 8126>>, <<8130, 8132>>, <<8134, 8140>>,
     <<8144, 8147>>, <<8150, 8155>>, <<8160, 8172>>, <<8178, 8180>>,
     <<8182, 8188>>, <<8305, 8305>>, <<8319, 8319>>, <<8336, 8348>>,
     <<8450, 8450>>, <<8455, 8455>>, <<8458, 8467>>, <<8469, 8469>>,
     <<8473, 8477>>, <<8484, 8484>>, <<8486, 8486>>, <<8488, 8488>>,
     <<8490, 8493>>, <<8495, 8500>>, <<8505, 8505>>, <<8508, 8511>>,
     <<8517, 8521>>, <<8526, 8526>>, <<8544, 8575>>, <<8579, 8580>>,
     <<9398, 9449>>, <<11264, 11492>>, <<11499, 11502>>, <<11506, 11507>>,
     <<11520, 11557>>, <<11559, 11559>>, <<11565, 11565>>, <<42560, 42605>>,
     <<42624, 42653>>, <<42786, 42887>>, <<42891, 42894>>, <<42896, 42954>>,
     <<42960, 42961>>, <<42963, 42963>>, <<42965, 42969>>, <<42997, 42998>>,
     <<43000, 43002>>, <<43824, 43866>>, <<43868, 43880>>, <<43888, 43967>>,
     <<64256, 64262>>, <<64275, 64279>>, <<65313, 65338>>, <<65345, 65370>>,
     <<66560, 66639>>, <<66736, 66771>>, <<66776, 66811>>, <<66928, 66938>>,
     <<66940, 66954>>, <<66956, 66962>>, <<66964, 66965>>, <<66967, 66977>>,
     <<66979, 66993>>, <<66995, 67001>>, <<67003, 67004>>, <<67456, 67456>>,
     <<67459, 67461>>, <<67463, 67504>>, <<67506, 67514>>, <<68736, 68786>>,
     <<68800, 68850>>, <<71840, 71903>>, <<93760, 93823>>, <<119808, 119892>>,
     <<119894, 119964>>, <<119966, 119967>>, <<119970, 119970>>,
     <<119973, 119974>>, <<119977, 119980>>, <<119982, 119993>>,
     <<119995, 119995>>, <<119997, 120003>>, <<120005, 120069>>,
     <<120071, 120074>>, <<120077, 120084>>, <<120086, 120092>>,
     <<120094, 120121>>, <<120123, 120126>>, <<120128, 120132>>,
     <<120134, 120134>>, <<120138, 120144>>, <<120146, 120485>>,
     <<120488, 120512>>, <<120514, 120538>>, <<120540, 120570>>,
     <<120572, 120596>>, <<120598, 120628>>, <<120630, 120654>>,
     <<120656, 120686>>, <<120688, 120712>>, <<120714, 120744>>,
     <<120746, 120770>>, <<120772, 120779>>, <<122624, 122633>>,
     <<122635, 122654>>, <<125184, 125251>>, <<127280, 127305>>,
     <<127312, 127337>>, <<127344, 127369>>}

Cased == InRuns(CasedRuns)

\* the case-ignorable characters of Unicode 14.0, as runs <<first, last>>
CaseIgnorableRuns ==
    {<<39, 39>>, <<46, 46>>, <<58, 58>>, <<94, 94>>, <<96, 96>>, <<168, 168>>,
     <<173, 173>>, <<175, 175>>, <<180, 180>>, <<183, 184>>, <<688, 879>>,
     <<884, 885>>, <<890, 890>>, <<900, 901>>, <<903, 903>>, <<1155, 1161>>,
     <<1369, 1369>>, <<1375, 1375>>, <<1425, 1469>>, <<1471, 1471>>,
     <<1473, 1474>>, <<1476, 1477>>, <<1479, 1479>>, <<1524, 1524>>,
     <<1536, 1541>>, <<1552, 1562>>, <<1564, 1564>>, <<1600, 1600>>,
     <<1611, 1631>>, <<1648, 1648>>, <<1750, 1757>>, <<1759, 1768>>,
     <<1770, 1773>>, <<1807, 1807>>, <<1809, 1809>>, <<1840, 1866>>,
     <<1958, 1968>>, <<2027, 2037>>, <<2042, 2042>>, <<2045, 2045>>,
     <<2070, 2093>>, <<2137, 2139>>, <<2184, 2184>>, <<2192, 2193>>,
     <<2200, 2207>>, <<2249, 2306>>, <<2362, 2362>>, <<2364, 2364>>,
     <<2369, 2376>>, <<2381, 2381>>, <<2385, 2391>>, <<2402, 2403>>,
     <<2417, 2417>>, <<2433, 2433>>, <<2492, 2492>>, <<2497, 2500>>,
     <<2509, 2509>>, <<2530, 2531>>, <<2558, 2558>>, <<2561, 2562>>,
     <<2620, 2620>>, <<2625, 2626>>, <<2631, 2632>>, <<2635, 2637>>,
     <<2641, 2641>>, <<2672, 2673>>, <<2677, 2677>>, <<2689, 2690>>,
     <<2748, 2748>>, <<2753, 2757>>, <<2759, 2760>>, <<2765, 2765>>,
     <<2786, 2787>>, <<2810, 2815>>, <<2817, 2817>>, <<2876, 2876>>,
     <<2879, 2879>>, <<2881, 2884>>, <<2893, 2893>>, <<2901, 2902>>,
     <<2914, 2915>>, <<2946, 2946>>, <<3008, 3008>>, <<3021, 3021>>,
     <<3072, 3072>>, <<3076, 3076>>, <<3132, 3132>>, <<3134, 3136>>,
     <<3142, 3144>>, <<3146, 3149>>, <<3157, 3158>>, <<3170, 3171>>,
     <<3201, 3201>>, <<3260, 3260>>, <<3263, 3263>>, <<3270, 3270>>,
     <<3276, 3277>>, <<3298, 3299>>, <<3328, 3329>>, <<3387, 3388>>,
     <<3393, 3396>>, <<3405, 3405>>, <<3426, 3427>>, <<3457, 3457>>,
     <<3530, 3530>>, <<3538, 3540>>, <<3542, 3542>>, <<3633, 3633>>,
     <<3636, 3642>>, <<3654, 3662>>, <<3761, 3761>>, <<3764, 3772>>,
     <<3782, 3782>>, <<3784, 3789>>, <<3864, 3865>>, <<3893, 3893>>,
     <<3895, 3895>>, <<3897, 3897>>, <<3953, 3966>>, <<3968, 3972>>,
     <<3974, 3975>>, <<3981, 3991>>, <<3993, 4028>>, <<4038, 4038>>,
     <<4141, 4144>>, <<4146, 4151>>, <<4153, 4154>>, <<4157, 4158>>,
     <<4184, 4185>>, <<4190, 4192>>, <<4209, 4212>>, <<4226, 4226>>,
     <<4229, 4230>>, <<4237, 4237>>, <<4253, 4253>>, <<4348, 4348>>,
     <<4957, 4959>>, <<5906, 5908>>, <<5938, 5939>>, <<5970, 5971>>,
     <<6002, 6003>>, <<6068, 6069>>, <<6071, 6077>>, <<6086, 6086>>,
     <<6089, 6099>>, <<6103, 6103>>, <<6109, 6109>>, <<6155, 6159>>,
     <<6211, 6211>>, <<6277, 6278>>, <<6313, 6313>>, <<6432, 6434>>,
     <<6439, 6440>>, <<6450, 6450>>, <<6457, 6459>>, <<6679, 6680>>,
     <<6683, 6683>>, <<6742, 6742>>, <<6744, 6750>>, <<6752, 6752>>,
     <<6754, 6754>>, <<6757, 6764>>, <<6771, 6780>>, <<6783, 6783>>,
     <<6823, 6823>>, <<6832, 6862>>, <<6912, 6915>>, <<6964, 6964>>,
     <<6966, 6970>>, <<6972, 6972>>, <<6978, 6978>>, <<7019, 7027>>,
     <<7040, 7041>>, <<7074, 7077>>, <<7080, 7081>>, <<7083, 7085>>,
     <<7142, 7142>>, <<7144, 7145>>, <<7149, 7149>>, <<7151, 7153>>,
     <<7212, 7219>>, <<7222, 7223>>, <<7288, 7293>>, <<7376, 7378>>,
     <<7380, 7392>>, <<7394, 7400>>, <<7405, 7405>>, <<7412, 7412>>,
     <<7416, 7417>>, <<7468, 7530>>, <<7544, 7544>>, <<7579, 7679>>,
     <<8125, 8125>>, <<8127, 8129>>, <<8141, 8143>>, <<8157, 8159>>,
     <<8173, 8175>>, <<8189, 8190>>, <<8203, 8207>>, <<8216, 8217>>,
     <<8228, 8228>>, <<8231, 8231>>, <<8234, 8238>>, <<8288, 8292>>,
     <<8294, 8303>>, <<8305, 8305>>, <<8319, 8319>>, <<8336, 8348>>,
     <<8400, 8432>>, <<11388, 11389>>, <<11503, 11505>>, <<11631, 11631>>,
     <<11647, 11647>>, <<11744, 11775>>, <<11823, 11823>>, <<12293, 12293>>,
     <<12330, 12333>>, <<12337, 12341>>, <<12347, 12347>>, <<12441, 12446>>,
     <<12540, 12542>>, <<40981, 40981>>, <<42232, 42237>>, <<42508, 42508>>,
     <<42607, 42610>>, <<42612, 42621>>, <<42623, 42623>>, <<42652, 42655>>,
     <<42736, 42737>>, <<42752, 42785>>, <<42864, 42864>>, <<42888, 42890>>,
     <<42994, 42996>>, <<43000, 43001>>, <<43010, 43010>>, <<43014, 43014>>,
     <<43019, 43019>>, <<43045, 43046>>, <<43052, 43052>>, <<43204, 43205>>,
     <<43232, 43249>>, <<43263, 43263>>, <<43302, 43309>>, <<43335, 43345>>,
     <<43392, 43394>>, <<43443, 43443>>, <<43446, 43449>>, <<43452, 43453>>,
     <<43471, 43471>>, <<43493, 43494>>, <<43561, 43566>>, <<43569, 43570>>,
     <<43573, 43574>>, <<43587, 43587>>, <<43596, 43596>>, <<43632, 43632>>,
     <<43644, 43644>>, <<43696, 43696>>, <<43698, 43700>>, <<43703, 43704>>,
     <<43710, 43711>>, <<43713, 43713>>, <<43741, 43741>>, <<43756, 43757>>,
     <<43763, 43764>>, <<43766, 43766>>, <<43867, 43871>>, <<43881, 43883>>,
     <<44005, 44005>>, <<44008, 44008>>, <<44013, 44013>>, <<64286, 64286>>,
     <<64434, 64450>>, <<65024, 65039>>, <<65043, 65043>>, <<65056, 65071>>,
     <<65106, 65106>>, <<65109, 65109>>, <<65279, 65279>>, <<65287, 65287>>,
     <<65294, 65294>>, <<65306, 65306>>, <<65342, 65342>>, <<65344, 65344>>,
     <<65392, 65392>>, <<65438, 65439>>, <<65507, 65507>>, <<65529, 65531>>,
     <<66045, 66045>>, <<66272, 66272>>, <<66422, 66426>>, <<67456, 67461>>,
     <<67463, 67504>>, <<67506, 67514>>, <<68097, 68099>>, <<68101, 68102>>,
     <<68108, 68111>>, <<68152, 68154>>, <<68159, 68159>>, <<68325, 68326>>,
     <<68900, 68903>>, <<69291, 69292>>, <<69446, 69456>>, <<69506, 69509>>,
     <<69633, 69633>>, <<69688, 69702>>, <<69744, 69744>>, <<69747, 69748>>,
     <<69759, 69761>>, <<69811, 69814>>, <<69817, 69818>>, <<69821, 69821>>,
     <<69826, 69826>>, <<69837, 69837>>, <<69888, 69890>>, <<69927, 69931>>,
     <<69933, 69940>>, <<70003, 70003>>, <<70016, 70017>>, <<70070, 70078>>,
     <<70089, 70092>>, <<70095, 70095>>, <<70191, 70193>>, <<70196, 70196>>,
     <<70198, 70199>>, <<70206, 70206>>, <<70367, 70367>>, <<70371, 70378>>,
     <<70400, 70401>>, <<70459, 70460>>, <<70464, 70464>>, <<70502, 70508>>,
     <<70512, 70516>>, <<70712, 70719>>, <<70722, 70724>>, <<70726, 70726>>,
     <<70750, 70750>>, <<70835, 70840>>, <<70842, 70842>>, <<70847, 70848>>,
     <<70850, 70851>>, <<71090, 71093>>, <<71100, 71101>>, <<71103, 71104>>,
     <<71132, 71133>>, <<71219, 71226>>, <<71229, 71229>>, <<71231, 71232>>,
     <<71339, 71339>>, <<71341, 71341>>, <<71344, 71349>>, <<71351, 71351>>,
     <<71453, 71455>>, <<71458, 71461>>, <<71463, 71467>>, <<71727, 71735>>,
     <<71737, 71738>>, <<71995, 71996>>, <<71998, 71998>>, <<72003, 72003>>,
     <<72148, 72151>>, <<72154, 72155>>, <<72160, 72160>>, <<72193, 72202>>,
     <<72243, 72248>>, <<72251, 72254>>, <<72263, 72263>>, <<72273, 72278>>,
     <<72281, 72283>>, <<72330, 72342>>, <<72344, 72345>>, <<72752, 72758>>,
     <<72760, 72765>>, <<72767, 72767>>, <<72850, 72871>>, <<72874, 72880>>,
     <<72882, 72883>>, <<72885, 72886>>, <<73009, 73014>>, <<73018, 73018>>,
     <<73020, 73021>>, <<73023, 73029>>, <<73031, 73031>>, <<73104, 73105>>,
     <<73109, 73109>>, <<73111, 73111>>, <<73459, 73460>>, <<78896, 78904>>,
     <<92912, 92916>>, <<92976, 92982>>, <<92992, 92995>>, <<94031, 94031>>,
     <<94095, 94111>>, <<94176, 94177>>, <<94179, 94180>>, <<110576, 110579>>,
     <<110581, 110587>>, <<110589, 110590>>, <<113821, 113822>>,
     <<113824, 113827>>, <<118528, 118573>>, <<118576, 118598>>,
     <<119143, 119145>>, <<119155, 119170>>, <<119173, 119179>>,
     <<119210, 119213>>, <<119362, 119364>>, <<121344, 121398>>,
     <<121403, 121452>>, <<121461, 121461>>, <<121476, 121476>>,
     <<121499, 121503>>, <<121505, 121519>>, <<122880, 122886>>,
     <<122888, 122904>>, <<122907, 122913>>, <<122915, 122916>>,
     <<122918, 122922>>, <<123184, 123197>>, <<123566, 123566>>,
     <<123628, 123631>>, <<125136, 125142>>, <<125252, 125259>>,
     <<127995, 127999>>, <<917505, 917505>>, <<917536, 917631>>,
     <<917760, 917999>>}

CaseIgnorable == InRuns(CaseIgnorableRuns)

\* s[i], a capital sigma, is final: a cased character comes before it and
\* none after it, case-ignorable characters skipped
FinalSigma(s, i) ==
    LET before == {j \in 1..(i - 1) : s[j] \notin CaseIgnorable}
        after == {j \in (i + 1)..Len(s) : s[j] \notin CaseIgnorable}
    IN  /\ before # {}
        /\ s[CHOOSE j \in before : \A k \in before : k <= j] \in Cased
        /\ \/ after = {}
           \/ s[CHOOSE j \in after : \A k \in after : j <= k] \notin Cased

\* the lowercase of s[i] in s: a capital sigma gives the final or the
\* small sigma
LowerAt(s, i) ==
    IF s[i] = 931 THEN <<IF FinalSigma(s, i) THEN 962 ELSE 963>>
    ELSE LowerChar(s[i])

\* str.lower(); a str without U+0130 keeps its length
Lower(s) ==
    IF \A i \in 1..Len(s) : s[i] # 304
    THEN [i \in 1..Len(s) |-> LowerAt(s, i)[1]]
    ELSE Concat([i \in 1..Len(s) |-> LowerAt(s, i)])

lower_articles(as) == [k \in 1..Len(as) |-> Lower(as[k])]

\* the first position at i or later whose character is (is not) a space,
\* or Len(s) + 1
NextSpace(s, i) ==
    LET found == {j \in i..Len(s) : s[j] = 32}
    IN  IF found = {} THEN Len(s) + 1
        ELSE CHOOSE j \in found : \A k \in found : j <= k

NextNonSpace(s, i) ==
    LET found == {j \in i..Len(s) : s[j] # 32}
    IN  IF found = {} THEN Len(s) + 1
        ELSE CHOOSE j \in found : \A k \in found : j <= k

RECURSIVE TokensFrom(_, _, _)
TokensFrom(s, i, acc) ==
    IF NextNonSpace(s, i) > Len(s) THEN acc
    ELSE TokensFrom(s, NextSpace(s, NextNonSpace(s, i)),
                    Append(acc, SubSeq(s, NextNonSpace(s, i),
                                       NextSpace(s, NextNonSpace(s, i)) - 1)))

\* nltk.word_tokenize on text made of letters, digits, hyphens and spaces:
\* the maximal runs of non-space characters
word_tokenize(s) == TokensFrom(s, 1, <<>>)

tokenize_articles(as) == [k \in 1..Len(as) |-> word_tokenize(as[k])]

\* stopwords.words('russian'), the entries the model's words can spell:
\* "я", "а", "быть"
StopWords == {<<1103>>, <<1072>>, <<1073, 1099, 1090, 1100>>}

remove_stop_words(ws) == SelectSeq(ws, LAMBDA w : w \notin StopWords)

\* [a-zA-Zа-яА-Я-]
AlphaClass == (97..122) \cup (65..90) \cup (1072..1103) \cup (1040..1071) \cup {45}

\* re.search(r'[a-zA-Zа-яА-Я-]', word)
SearchAlpha(w) == \E i \in 1..Len(w) : w[i] \in AlphaClass

\* re.search(r'[^a-zA-Zа-яА-Я-]', word)
SearchNonAlpha(w) == \E i \in 1..Len(w) : w[i] \notin AlphaClass

remove_non_alphabetical_words(ws) ==
    SelectSeq(ws, LAMBDA w : SearchAlpha(w) /\ ~SearchNonAlpha(w))

remove_junk_from_articles(as) ==
    [k \in 1..Len(as) |-> remove_non_alphabetical_words(remove_stop_words(as[k]))]

articles_preprocessing(as) ==
    remove_junk_from_articles(tokenize_articles(lower_articles(as)))

(***************************************************************************)
(* lemmatize_articles. morph is the analyzer: a function from words to     *)
(* normal forms (morph.parse(word)[0].normal_form), fixed for the run.     *)
(***************************************************************************)
lemmatize_articles(morph, as) ==
    [k \in 1..Len(as) |-> [i \in 1..Len(as[k]) |-> morph[as[k][i]]]]

\* the words the analyzer is asked about
WordsIn(as) == UNION {Range(as[k]) : k \in 1..Len(as)}

(***************************************************************************)
(* Counter and dict helpers.                                               *)
(***************************************************************************)
RECURSIVE Distinct(_)
\* the elements of s, each once, in order of first occurrence
Distinct(s) ==
    IF s = <<>> THEN <<>>
    ELSE LET d == Distinct(SubSeq(s, 1, Len(s) - 1))
             x == s[Len(s)]
         IN  IF x \in Range(d) THEN d ELSE Append(d, x)

Count(w, s) == Cardinality({i \in 1..Len(s) : s[i] = w})

\* collections.Counter(s): items in order of first occurrence
Counter(s) ==
    LET d == Distinct(s) IN [k \in 1..Len(d) |-> <<d[k], Count(d[k], s)>>]

Keys(d) == [k \in 1..Len(d) |-> d[k][1]]

HasKey(d, key) == \E k \in 1..Len(d) : d[k][1] = key

\* d[key], for a key of d
Get(d, key) == d[CHOOSE k \in 1..Len(d) : d[k][1] = key][2]

(***************************************************************************)
(* float: IEEE 754 double precision, for tf, idf and their product.        *)
(* A big natural is the sequence of its limbs, least significant first.    *)
(***************************************************************************)
\* bits of a limb
LimbBits == 14
\* bits of the significand of a double
SignificandBits == 53

Base == 2 ^ LimbBits

\* limbs that hold a significand
SignificandLimbs == (SignificandBits + LimbBits - 1) \div LimbBits

Limb(x, i) == IF i >= 1 /\ i <= Len(x) THEN x[i] ELSE 0

\* the function f on 1..n as the tuple of its values
Limbs(f) == SubSeq(f, 1, Len(f))

\* bit k of x, bit 0 the least significant
BigBit(x, k) == (Limb(x, k \div LimbBits + 1) \div (2 ^ (k % LimbBits))) % 2

RECURSIVE Carry(_, _, _)
\* the limbs of sum of cols[i] * Base^(i-1), from column i on with carry c in
Carry(cols, i, c) ==
    IF i > Len(cols) THEN <<>>
    ELSE <<(cols[i] + c) % Base>> \o Carry(cols, i + 1, (cols[i] + c) \div Base)

RECURSIVE ColumnSum(_, _, _, _)
\* sum of x[j] * y[k + 1 - j] for j from i up
ColumnSum(x, y, k, i) ==
    IF i > Len(x) THEN 0
    ELSE Limb(x, i) * Limb(y, k + 1 - i) + ColumnSum(x, y, k, i + 1)

BigMul(x, y) ==
    Carry(Limbs([k \in 1..(Len(x) + Len(y)) |-> ColumnSum(x, y, k, 1)]), 1, 0)

\* x * a for a natural a below 2^17
BigMulSmall(x, a) ==
    Carry(Limbs([k \in 1..(Len(x) + 2) |-> Limb(x, k) * a]), 1, 0)

\* a * 2^k for a natural a below 2^17
BigShifted(a, k) ==
    LET v == a * (2 ^ (k % LimbBits))
    IN  [i \in 1..(k \div LimbBits) |-> 0]
        \o <<v % Base, (v \div Base) % Base, v \div (Base * Base)>>

\* the first n limbs of floor(x / 2^s)
ShiftRight(x, s, n) ==
    LET w == s \div LimbBits
        t == s % LimbBits
    IN  Limbs([i \in 1..n |->
                  (Limb(x, i + w) \div (2 ^ t))
                  + (Limb(x, i + w + 1) % (2 ^ t)) * (2 ^ (LimbBits - t))])

\* x mod 2^k is not zero
LowBitsSet(x, k) ==
    \/ \E i \in 1..(k \div LimbBits) : Limb(x, i) # 0
    \/ Limb(x, k \div LimbBits + 1) % (2 ^ (k % LimbBits)) # 0

\* floor(x / 2^s) is to be rounded up: round to nearest, ties to even
RoundsUp(x, s) ==
    /\ s >= 1
    /\ BigBit(x, s - 1) = 1
    /\ LowBitsSet(x, s - 1) \/ BigBit(x, s) = 1

RECURSIVE BigRem(_, _, _)
\* the number made of the limbs i.. of x, modulo b
BigRem(x, b, i) ==
    IF i > Len(x) THEN 0 ELSE (BigRem(x, b, i + 1) * Base + x[i]) % b

\* floor(x / b) for a natural b below 2^17
BigDivSmall(x, b) ==
    Limbs([i \in 1..Len(x) |-> (BigRem(x, b, i + 1) * Base + x[i]) \div b])

\* the double of significand m, or m + 1 when up, and exponent e
Pack(m, up, e) ==
    LET n == SignificandLimbs
        top == 2 ^ (SignificandBits - (n - 1) * LimbBits)
        r == IF up THEN Carry(Limbs([i \in 1..n |-> m[i] + (IF i = 1 THEN 1 ELSE 0)]), 1, 0)
             ELSE m
        \* the carry out of the top limb is dropped by Carry: m + 1 = 2^53
        over == up /\ \A i \in 1..n : r[i] = 0
    IN  IF over \/ r[n] >= top
        THEN [m |-> Limbs([i \in 1..n |-> IF i = n THEN top \div 2 ELSE 0]),
              e |-> e + 1]
        ELSE [m |-> r, e |-> e]

RECURSIVE FloorLog2(_, _)
\* the p with 2^p <= a / b < 2^(p + 1)
FloorLog2(a, b) ==
    IF a >= b THEN (IF a < 2 * b THEN 0 ELSE 1 + FloorLog2(a, 2 * b))
    ELSE FloorLog2(2 * a, b) - 1

\* the double nearest to a / b, for ints a, b > 0 below 2^17
NearestQuotient(a, b) ==
    LET p == FloorLog2(a, b)
        k == SignificandBits - 1 - p
        num == BigShifted(a, k)
        q == ShiftRight(BigDivSmall(num, b), 0, SignificandLimbs)
        r == BigRem(num, b, 1)
    IN  Pack(q, 2 * r > b \/ (2 * r = b /\ q[1] % 2 = 1), -k)

\* the double nearest to x * y, for doubles x, y
NearestProduct(x, y) ==
    LET prod == BigMul(x.m, y.m)
        s == IF BigBit(prod, 2 * SignificandBits - 1) = 1
             THEN SignificandBits ELSE SignificandBits - 1
    IN  Pack(ShiftRight(prod, s, SignificandLimbs), RoundsUp(prod, s), x.e + y.e + s)

\* the quotients and products that scoring a corpus of at most MaxArticles
\* articles of at most MaxLong lemmas asks for, computed once: count / len,
\* N / df and their products; other operands are computed on demand
TfOperands == {ab \in (1..MaxLong) \X (1..MaxLong) : ab[1] <= ab[2]}

IdfOperands == {ab \in (1..MaxArticles) \X (1..MaxArticles) : ab[1] >= ab[2]}

Quotients ==
    {<<ab, NearestQuotient(ab[1], ab[2])>> : ab \in TfOperands \cup IdfOperands}

Quotient(ab) == (CHOOSE q \in Quotients : q[1] = ab)[2]

ProductOperands ==
    {<<Quotient(t), Quotient(i)>> : t \in TfOperands, i \in IdfOperands}

Products == {<<xy, NearestProduct(xy[1], xy[2])>> : xy \in ProductOperands}

\* a / b for ints a, b > 0
TrueDiv(a, b) ==
    IF <<a, b>> \in TfOperands \cup IdfOperands THEN Quotient(<<a, b>>)
    ELSE NearestQuotient(a, b)

\* x * y for doubles
FloatMul(x, y) ==
    IF <<x, y>> \in ProductOperands
    THEN (CHOOSE p \in Products : p[1] = <<x, y>>)[2]
    ELSE NearestProduct(x, y)

\* x < y for doubles
Less(x, y) ==
    \/ x.e < y.e
    \/ /\ x.e = y.e
       /\ \E i \in 1..Len(x.m) :
             /\ x.m[i] < y.m[i]
             /\ \A j \in (i + 1)..Len(x.m) : x.m[j] = y.m[j]

(***************************************************************************)
(* count_number_of_articles_with_all_words                                 *)
(***************************************************************************)
\* reduce(lambda x, y: x + y, articles) raises TypeError on an empty list
ReduceRaises(as) == as = <<>>

\* bug variant: the corpus-wide occurrence count of the word
OccurrencesIn(word, as) == Count(word, Concat(as))

RECURSIVE ArticlesWith(_, _)
\* the inner loop: one increment per article with `word in article`
ArticlesWith(word, as) ==
    IF as = <<>> THEN 0
    ELSE (IF word \in Range(Head(as)) THEN 1 ELSE 0) + ArticlesWith(word, Tail(as))

count_number_of_articles_with_all_words(as) ==
    LET word_frequency_in_all_articles == Counter(Concat(as))
        ks == Keys(word_frequency_in_all_articles)
        \* a key is created by the first increment only
        present == SelectSeq(ks, LAMBDA w : ArticlesWith(w, as) > 0)
    IN  [k \in 1..Len(present) |-> <<present[k], ArticlesWith(present[k], as)>>]

(***************************************************************************)
(* sort_tf_idfs: sorted(article.items(), key=lambda x: -x[1]) is stable.   *)
(***************************************************************************)
RECURSIVE InsertAfterEqual(_, _)
\* x goes before the first item whose key is greater than x's (-score)
InsertAfterEqual(x, sorted) ==
    IF sorted = <<>> THEN <<x>>
    ELSE IF Less(Head(sorted)[2], x[2]) THEN <<x>> \o sorted
    ELSE <<Head(sorted)>> \o InsertAfterEqual(x, Tail(sorted))

RECURSIVE InsertBeforeEqual(_, _)
InsertBeforeEqual(x, sorted) ==
    IF sorted = <<>> THEN <<x>>
    ELSE IF ~Less(x[2], Head(sorted)[2]) THEN <<x>> \o sorted
    ELSE <<Head(sorted)>> \o InsertBeforeEqual(x, Tail(sorted))

RECURSIVE SortedReversingTies(_)
\* bug variant: descending, but equal scores come out in reverse order
SortedReversingTies(items) ==
    IF items = <<>> THEN <<>>
    ELSE InsertBeforeEqual(items[Len(items)],
                           SortedReversingTies(SubSeq(items, 1, Len(items) - 1)))

RECURSIVE SortedItems(_)
SortedItems(items) ==
    IF items = <<>> THEN <<>>
    ELSE InsertAfterEqual(items[Len(items)],
                          SortedItems(SubSeq(items, 1, Len(items) - 1)))

sort_tf_idfs(ts) == [k \in 1..Len(ts) |-> SortedItems(ts[k])]

(***************************************************************************)
(* calculate_tf_idf                                                        *)
(***************************************************************************)
\* bug variant: the division by number_of_words is evaluated for every article
TfRaisesAlways(article) == Len(article) = 0

\* word_frequency[word] / number_of_words raises ZeroDivisionError when it is
\* evaluated with number_of_words = 0: once per key of word_frequency
TfRaises(article) ==
    \E k \in 1..Len(Counter(article)) : Len(article) = 0

\* number_of_articles_with_word[word] raises KeyError for a missing key
IdfRaises(article, number_of_articles_with_word) ==
    \E k \in 1..Len(Counter(article)) :
        ~HasKey(number_of_articles_with_word, Counter(article)[k][1])

\* the article_tf_idfs dict of one article, before sorting
ArticleTfIdfs(article, number_of_articles, number_of_articles_with_word) ==
    LET word_frequency == Counter(article)
        number_of_words == Len(article)
    IN  [k \in 1..Len(word_frequency) |->
            LET word == word_frequency[k][1]
                tf == TrueDiv(word_frequency[k][2], number_of_words)
                idf == TrueDiv(number_of_articles,
                            Get(number_of_articles_with_word, word))
            IN  <<word, FloatMul(tf, idf)>>]

\* the exception calculate_tf_idf raises on the corpus, or "none"
CalculateRaises(as) ==
    IF ReduceRaises(as) THEN "TypeError"
    ELSE IF \E k \in 1..Len(as) : TfRaises(as[k]) THEN "ZeroDivisionError"
    ELSE IF \E k \in 1..Len(as) :
                IdfRaises(as[k], count_number_of_articles_with_all_words(as))
         THEN "KeyError"
    ELSE "none"

calculate_tf_idf(as) ==
    LET number_of_articles_with_word == count_number_of_articles_with_all_words(as)
        number_of_articles == Len(as)
    IN  sort_tf_idfs([k \in 1..Len(as) |->
            ArticleTfIdfs(as[k], number_of_articles, number_of_articles_with_word)])

(***************************************************************************)
(* format_tf_idf                                                           *)
(***************************************************************************)
\* the value of the double x times 10^5, rounded to the nearest integer, ties
\* to even, for 0 < x < 2^14
NearestHundredThousandth(x) ==
    LET scaled == BigMulSmall(x.m, 100000)
        q == ShiftRight(scaled, -x.e, 3)
    IN  q[1] + q[2] * Base + q[3] * (Base * Base)
        + (IF RoundsUp(scaled, -x.e) THEN 1 ELSE 0)

\* the roundings of the scores of Products, computed once
Roundings == {<<p[2], NearestHundredThousandth(p[2])>> : p \in Products}

\* round(x, 5) in hundred-thousandths: round() rounds the exact value of the
\* double, so only a value that is exactly halfway is a tie
Round5(x) ==
    IF \E r \in Roundings : r[1] = x
    THEN (CHOOSE r \in Roundings : r[1] = x)[2]
    ELSE NearestHundredThousandth(x)

\* terms[:n]
SliceTo(terms, n) ==
    IF n >= 0 THEN SubSeq(terms, 1, Min(n, Len(terms)))
    ELSE SubSeq(terms, 1, Len(terms) + n)

\* bug variant: one term more than the limit
ArticleLimitOffByOne(terms, lim) == IF Len(terms) < lim THEN Len(terms) ELSE lim + 1

\* article_limit = len(terms) if len(terms) < limit else limit
ArticleLimit(terms, lim) == IF Len(terms) < lim THEN Len(terms) ELSE lim

\* the lines of one block: "", "Article <N>", then the term lines
Block(index, article, lim) ==
    LET terms == article
        shown == SliceTo(terms, ArticleLimit(terms, lim))
    IN  <<[kind |-> "blank"], [kind |-> "header", n |-> index]>>
        \o [k \in 1..Len(shown) |->
               [kind |-> "term", word |-> shown[k][1], score |-> Round5(shown[k][2])]]

format_tf_idf(ts, lim) == Concat([k \in 1..Len(ts) |-> Block(k, ts[k], lim)])

(***************************************************************************)
(* Inputs.                                                                 *)
(***************************************************************************)
\* "УДК 004."
START == <<1059, 1044, 1050, 32, 48, 48, 52, 46>>
\* "СПИСОК ЛИТЕРАТУРЫ"
END == <<1057, 1055, 1048, 1057, 1054, 1050, 32, 1051, 1048, 1058, 1045,
         1056, 1040, 1058, 1059, 1056, 1067>>

\* "УДК ٠٠٤.": a start marker in Arabic-Indic digits
START_INDIC == <<1059, 1044, 1050, 32, 1632, 1632, 1636, 46>>

\* the pieces documents are made of: the two markers, the start marker in
\* other digits, " ", "УДK" (a start marker cut short, and ending in the
\* Kelvin sign U+212A, whose lowercase is the Latin k), "будут", "я"
Chunks == {START, END, START_INDIC, <<32>>, <<1059, 1044, 8490>>,
           <<1073, 1091, 1076, 1091, 1090>>, <<1103>>}

\* t is a document of at most MaxChunks chunks
IsDocument(t) == \E cs \in SeqsUpTo(Chunks, MaxChunks) : t = Concat(cs)

\* the normal forms the analyzer may return: "быть", "еж"
NormalForms == {<<1073, 1099, 1090, 1100>>, <<1077, 1078>>}

\* the lemmas of the corpora handed directly to the engine: "a", "b", "c"
Vocabulary == {<<97>>, <<98>>, <<99>>}

\* flat cut into k articles at the cut points
CutInto(flat, k, cuts) ==
    [j \in 1..k |->
        SubSeq(flat, (IF j = 1 THEN 0 ELSE cuts[j - 1]) + 1,
                     IF j = k THEN Len(flat) ELSE cuts[j])]

\* the ways to cut flat into k articles: k - 1 cut points, in order
Cuts(flat, k) ==
    {c \in [1..(k - 1) -> 0..Len(flat)] : \A j \in 1..(k - 2) : c[j] <= c[j + 1]}

\* as is a corpus of at most MaxArticles articles and MaxLemmas lemmas in all
IsSmallCorpus(as) ==
    \E k \in 0..MaxArticles :
        \E flat \in SeqsUpTo(Vocabulary, IF k = 0 THEN 0 ELSE MaxLemmas) :
            \E cuts \in Cuts(flat, k) : as = CutInto(flat, k, cuts)

\* as is an article of at most MaxLong lemmas followed by copies of a
\* one-lemma article, at most MaxArticles articles in all
IsLongCorpus(as) ==
    \E long \in SeqsUpTo(Vocabulary, MaxLong) :
        \E w \in Vocabulary : \E k \in 0..(MaxArticles - 1) :
            as = <<long>> \o [j \in 1..k |-> <<w>>]

IsCorpus(as) == IsSmallCorpus(as) \/ IsLongCorpus(as)

\* the tokens handed directly to the alphabetic filter: "abc123", "123",
\* "!!", "co-op", "слово", "word", "ёж", "Ёж", "еж", "", and every single
\* character of a, Z, я, А, ё, Ё, -, 1, !
FilterTokens ==
    {<<97, 98, 99, 49, 50, 51>>, <<49, 50, 51>>, <<33, 33>>,
     <<99, 111, 45, 111, 112>>, <<1089, 1083, 1086, 1074, 1086>>,
     <<119, 111, 114, 100>>, <<1105, 1078>>, <<1025, 1078>>, <<1077, 1078>>,
     <<>>}
    \cup {<<c>> : c \in {97, 90, 1103, 1040, 1105, 1025, 45, 49, 33}}

(***************************************************************************)
(* main(): the pipeline, one action per statement.                         *)
(***************************************************************************)
Idle ==
    /\ articles = <<>> /\ words = <<>> /\ normal_form = <<>>
    /\ lemmatized_articles = <<>> /\ df_table = <<>>
    /\ tf_idfs = <<>> /\ result = <<>> /\ raised = "none"
    /\ words_arg = <<>> /\ filtered_words = <<>>

\* limit: int = 20, and format_tf_idf(tf_idfs, limit=20) in main()
MainLimit == 20

Init ==
    /\ pc = "split"
    /\ IsDocument(text)
    /\ limit = MainLimit
    /\ Idle

SplitTextIntoArticles ==
    /\ pc = "split"
    /\ articles' = split_text_into_articles(text)
    /\ pc' = "preprocess"
    /\ UNCHANGED <<text, words, normal_form, lemmatized_articles,
                   df_table, tf_idfs, limit, result,
                   raised, words_arg, filtered_words>>

ArticlesPreprocessing ==
    /\ pc = "preprocess"
    /\ words' = articles_preprocessing(articles)
    /\ pc' = "lemmatize"
    /\ UNCHANGED <<text, articles, normal_form, lemmatized_articles,
                   df_table, tf_idfs, limit, result,
                   raised, words_arg, filtered_words>>

LemmatizeArticles ==
    /\ pc = "lemmatize"
    /\ \E m \in [WordsIn(words) -> NormalForms] :
          /\ normal_form' = m
          /\ lemmatized_articles' = lemmatize_articles(m, words)
    /\ pc' = "tf_idf"
    /\ UNCHANGED <<text, articles, words, df_table, tf_idfs,
                   limit, result, raised, words_arg, filtered_words>>

CalculateTfIdf ==
    /\ pc = "tf_idf"
    /\ raised' = CalculateRaises(lemmatized_articles)
    /\ IF raised' = "none"
       THEN /\ df_table' =
                   count_number_of_articles_with_all_words(lemmatized_articles)
            /\ tf_idfs' = calculate_tf_idf(lemmatized_articles)
            /\ pc' = "format"
       ELSE /\ UNCHANGED <<df_table, tf_idfs>>
            /\ pc' = "raised"
    /\ UNCHANGED <<text, articles, words, normal_form, lemmatized_articles,
                   limit, result, words_arg, filtered_words>>

\* result = format_tf_idf(tf_idfs, limit=given)
Format(given) ==
    /\ pc = "format"
    /\ limit' = given
    /\ result' = format_tf_idf(tf_idfs, limit')
    /\ pc' = "done"
    /\ UNCHANGED <<text, articles, words, normal_form, lemmatized_articles,
                   df_table, tf_idfs, raised, words_arg, filtered_words>>

FormatTfIdf == Format(MainLimit)

Next ==
    \/ SplitTextIntoArticles
    \/ ArticlesPreprocessing
    \/ LemmatizeArticles
    \/ CalculateTfIdf
    \/ FormatTfIdf

Spec == Init /\ [][Next]_vars

(***************************************************************************)
(* The TF-IDF engine on any corpus of lemma lists and any limit.           *)
(***************************************************************************)
InitEngine ==
    /\ pc = "tf_idf"
    /\ text = <<>>
    /\ articles = <<>> /\ words = <<>> /\ normal_form = <<>>
    /\ IsCorpus(lemmatized_articles)
    /\ limit = MainLimit
    /\ df_table = <<>>
    /\ tf_idfs = <<>> /\ result = <<>> /\ raised = "none"
    /\ words_arg = <<>> /\ filtered_words = <<>>

FormatTfIdfWithLimit == \E given \in 0..MaxLimit : Format(given)

NextEngine == CalculateTfIdf \/ FormatTfIdfWithLimit

SpecEngine == InitEngine /\ [][NextEngine]_vars

(***************************************************************************)
(* remove_non_alphabetical_words on any token list.                        *)
(***************************************************************************)
InitFilter ==
    /\ pc = "filter"
    /\ text = <<>>
    /\ limit = MainLimit
    /\ articles = <<>> /\ words = <<>> /\ normal_form = <<>>
    /\ lemmatized_articles = <<>> /\ df_table = <<>>
    /\ tf_idfs = <<>> /\ result = <<>> /\ raised = "none"
    /\ words_arg \in SeqsUpTo(FilterTokens, MaxTokens)
    /\ filtered_words = <<>>

RemoveNonAlphabeticalWords ==
    /\ pc = "filter"
    /\ filtered_words' = remove_non_alphabetical_words(words_arg)
    /\ pc' = "filtered"
    /\ UNCHANGED <<text, articles, words, normal_form, lemmatized_articles,
                   df_table, tf_idfs, limit, result,
                   raised, words_arg>>

NextFilter == RemoveNonAlphabeticalWords

SpecFilter == InitFilter /\ [][NextFilter]_vars

(***************************************************************************)
(* Segmentation.                                                           *)
(***************************************************************************)
\* where the start marker occurs in t; two occurrences never overlap
StartPositions(t) == {i \in 1..Len(t) : MatchAt(StartPattern, t, i)}

\* the j-th occurrence, in text order
NthStart(t, j) ==
    CHOOSE p \in StartPositions(t) :
        Cardinality({q \in StartPositions(t) : q < p}) = j - 1

\* the text between the j-th start marker and the next one, or the end
Segment(t, j) ==
    LET from == NthStart(t, j) + Len(StartPattern)
        to == IF j < Cardinality(StartPositions(t))
              THEN NthStart(t, j + 1) - 1 ELSE Len(t)
    IN  SubSeq(t, from, to)

EndPositions(s) == {i \in 1..Len(s) : MatchAt(EndPattern, s, i)}

Finished == pc \in {"done", "raised"}

\* C1: a document without a start marker gives an empty corpus, the rest of
\* the pipeline runs on it without raising, and the report is empty.
C1_NoMarkerGivesEmptyReport ==
    StartPositions(text) = {} =>
        /\ pc # "split" => articles = <<>>
        /\ raised = "none"
        /\ Finished => (pc = "done" /\ result = <<>>)

\* C2: a text with k occurrences of the start marker gives exactly k
\* articles, the j-th of them starting right after the j-th marker; what
\* precedes the first marker is no article. Stated of the articles as
\* split_text_into_articles returns them; main() never assigns them again.
C2_OneArticlePerStartMarker ==
    pc = "preprocess" =>
        /\ Len(articles) = Cardinality(StartPositions(text))
        /\ \A j \in 1..Len(articles) :
              LET from == NthStart(text, j) + Len(StartPattern)
              IN  SubSeq(text, from, from + Len(articles[j]) - 1) = articles[j]

\* two markers after a preamble, one of them in digits other than 0-9, and
\* two different articles
C2_Witness ==
    /\ pc = "preprocess"
    /\ Cardinality(StartPositions(text)) = 2
    /\ \E p \in StartPositions(text) : text[p + 4] \notin 48..57
    /\ 1 \notin StartPositions(text)
    /\ Len(articles) = 2
    /\ articles[1] # articles[2]
    /\ articles[1] # <<>>

\* C3: an article is its segment up to the first end marker, or the whole
\* segment when it has none; no article contains the end marker. Stated of
\* the articles as split_text_into_articles returns them.
C3_TruncatedAtFirstEndMarker ==
    pc = "preprocess" =>
        /\ Len(articles) = Cardinality(StartPositions(text))
        /\ \A j \in 1..Len(articles) :
              LET seg == Segment(text, j)
                  ends == EndPositions(seg)
              IN  /\ ends # {} =>
                        \E e \in ends :
                            /\ \A f \in ends : e <= f
                            /\ articles[j] = SubSeq(seg, 1, e - 1)
                  /\ ends = {} => articles[j] = seg
                  /\ EndPositions(articles[j]) = {}

\* a segment with two end markers and text after the first of them
C3_Witness ==
    /\ pc = "preprocess"
    /\ \E j \in 1..Len(articles) :
          /\ Cardinality(EndPositions(Segment(text, j))) = 2
          /\ Len(Segment(text, j)) > Len(articles[j]) + 2 * Len(EndPattern)

(***************************************************************************)
(* Document frequency and scoring.                                         *)
(***************************************************************************)
\* the articles of the corpus that contain w
ArticlesContaining(w, as) == {k \in 1..Len(as) : \E i \in 1..Len(as[k]) : as[k][i] = w}

Scored == pc \in {"format", "done"}

NoDuplicateKeys(d) == \A i, j \in 1..Len(d) : d[i][1] = d[j][1] => i = j

\* C4: on a non-empty corpus the table's keys are the distinct lemmas of the
\* corpus, each counted once per article that contains it, so between 1 and
\* the number of articles; every lemma of an article is in the table.
C4_DocumentFrequencyCountsArticles ==
    (lemmatized_articles # <<>> /\ pc # "tf_idf") =>
        /\ Scored
        /\ NoDuplicateKeys(df_table)
        /\ Range(Keys(df_table)) = WordsIn(lemmatized_articles)
        /\ \A k \in 1..Len(df_table) :
              /\ df_table[k][2] =
                    Cardinality(ArticlesContaining(df_table[k][1], lemmatized_articles))
              /\ df_table[k][2] >= 1
              /\ df_table[k][2] <= Len(lemmatized_articles)
        /\ \A a \in 1..Len(lemmatized_articles) :
              \A i \in 1..Len(lemmatized_articles[a]) :
                 /\ HasKey(df_table, lemmatized_articles[a][i])
                 /\ Get(df_table, lemmatized_articles[a][i]) # 0

\* a lemma in 2 of 3 articles, twice in one of them
C4_Witness ==
    /\ pc = "format"
    /\ Len(lemmatized_articles) = 3
    /\ \E k \in 1..Len(df_table) :
          /\ df_table[k][2] = 2
          /\ \E a \in 1..3 : Count(df_table[k][1], lemmatized_articles[a]) = 2

\* score = (count(w) / len(article)) * (N / df(w)) in float arithmetic, for
\* the items of one mapping
ScoresOf(items, article, as) ==
    \A k \in 1..Len(items) :
        items[k][2]
          = FloatMul(TrueDiv(Count(items[k][1], article), Len(article)),
                     TrueDiv(Len(as),
                             Cardinality(ArticlesContaining(items[k][1], as))))

\* C5: for every corpus of N articles calculate_tf_idf returns one mapping
\* per article, keyed by the article's distinct lemmas, with score
\* (count / len) * (N / df), a plain ratio computed in floats; in a 1-article
\* corpus of distinct words every score is 1 / number_of_words.
C5_ScoreIsTfTimesIdf ==
    pc # "tf_idf" =>
        /\ Scored
        /\ Len(tf_idfs) = Len(lemmatized_articles)
        /\ \A a \in 1..Len(tf_idfs) :
              /\ NoDuplicateKeys(tf_idfs[a])
              /\ Range(Keys(tf_idfs[a])) = Range(lemmatized_articles[a])
              /\ ScoresOf(tf_idfs[a], lemmatized_articles[a], lemmatized_articles)
        /\ (/\ Len(lemmatized_articles) = 1
            /\ Len(Distinct(lemmatized_articles[1])) = Len(lemmatized_articles[1]))
              => \A k \in 1..Len(tf_idfs[1]) :
                    tf_idfs[1][k][2] = TrueDiv(1, Len(lemmatized_articles[1]))

\* the same statement on the corpora with at least one article
C5_OnNonEmptyCorpus == lemmatized_articles # <<>> => C5_ScoreIsTfTimesIdf

\* the equation of C5 read in the real numbers: the value m * 2^e of every
\* score satisfies score * len(article) * df(w) = count(w) * N
C5_EquationHoldsInReals ==
    pc = "format" =>
        \A a \in 1..Len(tf_idfs) : \A k \in 1..Len(tf_idfs[a]) :
            LET score == tf_idfs[a][k][2]
                w == tf_idfs[a][k][1]
                lhs == BigMulSmall(score.m, Len(lemmatized_articles[a])
                                            * Get(df_table, w))
                rhs == BigShifted(Count(w, lemmatized_articles[a])
                                  * Len(lemmatized_articles), -score.e)
            IN  \A i \in 1..(Len(lhs) + Len(rhs)) : Limb(lhs, i) = Limb(rhs, i)

(***************************************************************************)
(* Ranking.                                                                *)
(***************************************************************************)
\* where w is first encountered in the article's lemma list
FirstIndex(w, article) ==
    CHOOSE i \in 1..Len(article) :
        article[i] = w /\ \A j \in 1..(i - 1) : article[j] # w

\* the mapping of article a before sort_tf_idfs
Unsorted(a) ==
    ArticleTfIdfs(lemmatized_articles[a], Len(lemmatized_articles), df_table)

\* C6: every returned mapping is ordered by score, highest first; lemmas of
\* equal score keep the order of their first occurrence in the article; the
\* mapping holds the same lemma/score pairs as before sorting.
C6_SortedDescendingStable ==
    Scored =>
        \A a \in 1..Len(tf_idfs) :
            /\ \A i, j \in 1..Len(tf_idfs[a]) :
                  i < j =>
                    /\ ~Less(tf_idfs[a][i][2], tf_idfs[a][j][2])
                    /\ tf_idfs[a][i][2] = tf_idfs[a][j][2] =>
                          FirstIndex(tf_idfs[a][i][1], lemmatized_articles[a])
                            < FirstIndex(tf_idfs[a][j][1], lemmatized_articles[a])
            /\ LET unsorted == Unsorted(a)
               IN  /\ Len(tf_idfs[a]) = Len(unsorted)
                   /\ Range(tf_idfs[a]) = Range(unsorted)

\* an article the sort reorders, with two lemmas of equal score, and with two
\* lemmas whose ratios count / df are equal and whose scores the rounding of
\* the floats separates (0.2 * 3.0 = 0.6000000000000001 above 0.6 * 1.0)
C6_Witness ==
    /\ pc = "format"
    /\ \E a \in 1..Len(tf_idfs) :
          /\ tf_idfs[a] # Unsorted(a)
          /\ \E i, j \in 1..Len(tf_idfs[a]) :
                i < j /\ tf_idfs[a][i][2] = tf_idfs[a][j][2]
          /\ \E i, j \in 1..Len(tf_idfs[a]) :
                /\ Less(tf_idfs[a][j][2], tf_idfs[a][i][2])
                /\ Count(tf_idfs[a][i][1], lemmatized_articles[a])
                     * Get(df_table, tf_idfs[a][j][1])
                   = Count(tf_idfs[a][j][1], lemmatized_articles[a])
                     * Get(df_table, tf_idfs[a][i][1])

(***************************************************************************)
(* The report.                                                             *)
(***************************************************************************)
\* the positions of the header lines of the report
Headers(r) == {i \in 1..Len(r) : r[i].kind = "header"}

\* the position of the a-th header
NthHeader(r, a) ==
    CHOOSE h \in Headers(r) : Cardinality({g \in Headers(r) : g < h}) = a - 1

\* the term lines that follow the header at h, up to the next block
TermsAfter(r, h) ==
    {i \in (h + 1)..Len(r) :
        \A j \in (h + 1)..i : r[j].kind = "term"}

\* line shows entry: the same lemma, the score rounded to 5 decimals
Shows(line, entry) ==
    /\ line.kind = "term"
    /\ line.word = entry[1]
    /\ line.score = Round5(entry[2])

\* C7: one block per article, in order, headed Article <N> with N counting
\* from 1, followed by exactly min(limit, number of lemmas) term lines: the
\* first entries of the sorted mapping, in rank order.
C7_ReportShowsTopTerms ==
    pc = "done" =>
        /\ Cardinality(Headers(result)) = Len(tf_idfs)
        /\ \A a \in 1..Len(tf_idfs) :
              LET h == NthHeader(result, a)
                  shown == Min(limit, Len(tf_idfs[a]))
              IN  /\ result[h].n = a
                  /\ Cardinality(TermsAfter(result, h)) = shown
                  /\ \A i \in 1..shown : Shows(result[h + i], tf_idfs[a][i])
        /\ \A i \in 1..Len(result) :
              result[i].kind = "term" => \E h \in Headers(result) : i \in TermsAfter(result, h)

\* a report of two blocks, one cut to the limit and one shorter than it
C7_Witness ==
    /\ pc = "done"
    /\ limit >= 1
    /\ \E a, b \in 1..Len(tf_idfs) :
          /\ Len(tf_idfs[a]) > limit
          /\ Len(tf_idfs[b]) < limit
          /\ Len(tf_idfs[b]) >= 1

(***************************************************************************)
(* Articles without lemmas.                                                *)
(***************************************************************************)
EmptyArticles == {a \in 1..Len(lemmatized_articles) : lemmatized_articles[a] = <<>>}

\* C9: on a non-empty corpus with articles of zero lemmas calculate_tf_idf
\* raises nothing; an empty article gets an empty mapping, the others are
\* scored with the empty ones counted in number_of_articles, and the report
\* still has the header of an empty article, with no term line under it.
C9_EmptyArticlesAreHarmless ==
    (EmptyArticles # {} /\ pc # "tf_idf") =>
        /\ raised = "none"
        /\ Scored
        /\ Len(tf_idfs) = Len(lemmatized_articles)
        /\ \A a \in 1..Len(tf_idfs) :
              /\ a \in EmptyArticles => tf_idfs[a] = <<>>
              /\ a \notin EmptyArticles =>
                    /\ Range(Keys(tf_idfs[a])) = Range(lemmatized_articles[a])
                    /\ ScoresOf(tf_idfs[a], lemmatized_articles[a], lemmatized_articles)
        /\ pc = "done" =>
              \A a \in EmptyArticles :
                 /\ Cardinality(Headers(result)) = Len(tf_idfs)
                 /\ result[NthHeader(result, a)].n = a
                 /\ TermsAfter(result, NthHeader(result, a)) = {}

\* a report for an empty article followed by a scored one
C9_Witness ==
    /\ pc = "done"
    /\ limit >= 1
    /\ Len(lemmatized_articles) >= 2
    /\ 1 \in EmptyArticles
    /\ \E a \in 1..Len(tf_idfs) : tf_idfs[a] # <<>>

(***************************************************************************)
(* The alphabetic filter and the lemmas.                                   *)
(***************************************************************************)
\* the letters of the two alphabets: Latin A-Z, a-z; Cyrillic А-Я, а-я, Ё, ё
IsLetter(c) ==
    \/ c \in 65..90 \/ c \in 97..122
    \/ c \in 1040..1103 \/ c = 1025 \/ c = 1105

IsLetterOrHyphen(c) == IsLetter(c) \/ c = 45

Alphabetical(w) ==
    /\ \E i \in 1..Len(w) : IsLetterOrHyphen(w[i])
    /\ \A i \in 1..Len(w) : IsLetterOrHyphen(w[i])

\* C8: remove_non_alphabetical_words keeps exactly the tokens that have a
\* letter of either alphabet or a hyphen and no other character, in their
\* order and with their repetitions.
C8_KeepsExactlyAlphabeticalTokens ==
    pc = "filtered" =>
        filtered_words = SelectSeq(words_arg, Alphabetical)

\* the same statement of the tokens spelled without the letters Ё and ё
C8_OnTokensWithoutYo ==
    (\A k \in 1..Len(words_arg) : \A i \in 1..Len(words_arg[k]) :
        words_arg[k][i] \notin {1025, 1105})
      => C8_KeepsExactlyAlphabeticalTokens

Lemmatized == pc \in {"tf_idf", "format", "done", "raised"}

\* C10: every lemma the frequencies are computed over is no stopword and is
\* spelled with letters and hyphens only.
C10_LemmasAreFilteredWords ==
    Lemmatized =>
        \A a \in 1..Len(lemmatized_articles) :
            \A i \in 1..Len(lemmatized_articles[a]) :
                /\ lemmatized_articles[a][i] \notin StopWords
                /\ Alphabetical(lemmatized_articles[a][i])

\* the same statement of the tokens handed to the analyzer
C10_OnTokensBeforeLemmatization ==
    pc \notin {"split", "preprocess"} =>
        \A a \in 1..Len(words) :
            \A i \in 1..Len(words[a]) :
                /\ words[a][i] \notin StopWords
                /\ Alphabetical(words[a][i])

====
